---------------------------- MODULE Spec2Model ----------------------------
(***************************************************************************)
(* A model of push.js: the Push object (src/push.js) running in a host     *)
(* page.  The host exposes some combination of the four native             *)
(* notification capabilities; the program probes them once (isSupported),  *)
(* reads and requests permission, builds native notifications, wraps them  *)
(* in a close handle and arms an auto-close timer.                         *)
(*                                                                         *)
(* The factory function of the file is not in strict mode (the 'use        *)
(* strict' directive of line 37 covers only the loader function), so the   *)
(* assignments to the undeclared names `notification` and `wrapper` in     *)
(* create_callback write two properties of the global object, and a read   *)
(* of the undeclared name `win` raises a ReferenceError.                   *)
(***************************************************************************)
EXTENDS Integers, Sequences, FiniteSets, TLC

(* ------------------------------ bounds -------------------------------- *)

MaxCreates == 2

MaxUserRequests == 1

MaxCloses == 2

(* ------------------------- the host environment ----------------------- *)

\* What w.external.msIsSiteMode() does: the object is absent, or the call
\* returns true, false or undefined, or raises (the object has no such method).
ExternalKinds == {"absent", "true", "false", "undef", "throws"}

\* The capabilities a host page can expose.  N is w.Notification with its
\* optional members, WK is w.webkitNotifications, MOZ is navigator.mozNotification.
Hosts ==
  { h \in [ N : BOOLEAN, Nlevel : BOOLEAN, Nperm : BOOLEAN, Nreq : BOOLEAN,
            WK : BOOLEAN, WKcheck : BOOLEAN, MOZ : BOOLEAN, EXT : ExternalKinds ] :
      /\ (~h.N => ~h.Nlevel /\ ~h.Nperm /\ ~h.Nreq)
      /\ (~h.WK => ~h.WKcheck) }

PermissionStates == {"granted", "default", "denied"}

\* Permission = { DEFAULT: 'default', GRANTED: 'granted', DENIED: 'denied' }
Permission == [DEFAULT |-> "default", GRANTED |-> "granted", DENIED |-> "denied"]

\* Permissions = [Permission.GRANTED, Permission.DEFAULT, Permission.DENIED]
\* (a JavaScript array: indices start at 0, every other key reads undefined).
PermissionsAt(i) ==
  IF i = 0 THEN Permission.GRANTED
  ELSE IF i = 1 THEN Permission.DEFAULT
  ELSE IF i = 2 THEN Permission.DENIED
  ELSE "undefined"

\* The number w.webkitNotifications.checkPermission() returns for a permission
\* state: 0 allowed, 1 not allowed, 2 denied.
checkPermission(p) ==
  IF p = "granted" THEN 0 ELSE IF p = "default" THEN 1 ELSE 2

\* The arguments the page passes to create(title, options): icon is undefined,
\* a string or a sized record {x32, x16}; timeout 0 stands for an absent one;
\* callbacks tells whether onShow, onError, onClick and onClose are functions.
Inputs ==
  { [title |-> "Hi", body |-> "hello", tag |-> "t1", icon |-> "undefined", timeout |-> 0,
     callbacks |-> FALSE],
    [title |-> "Yo", body |-> "there", tag |-> "t2", icon |-> "sized", timeout |-> 5000,
     callbacks |-> TRUE] }

\* The arguments create_callback is exercised with on its own.
DisplayInputs ==
  [ title : {"Hi"}, body : {"hello"}, tag : {"t1"},
    icon : {"undefined", "string", "sized"}, timeout : {0, 5000}, callbacks : BOOLEAN ]

VARIABLES
  host,          \* the capabilities of the page, fixed
  hostPerm,      \* the permission the user has given the page
  isSupported,   \* self.isSupported, computed once at construction
  calls,         \* the create calls made so far
  requests,      \* the Permission.request calls create has made so far
  userRequests,  \* the Permission.request calls the page has made so far
  natives,       \* the native notification objects constructed so far
  wrappers,      \* the close handles built so far
  notification,  \* the global `notification`: an index of natives, 0 undefined
  wrapper,       \* the global `wrapper`: an index of wrappers, 0 undefined
  lastGet,       \* what the page's last Permission.get() call did
  lastClose,     \* what the last close() of a handle did
  diagnostics,   \* console.error calls
  errors,        \* exceptions that left the program
  closeOps,      \* close() calls the page has made
  overlay        \* the icon overlay slot of the pinned site (SiteModeOverlay)

vars == << host, hostPerm, isSupported, calls, requests, userRequests, natives, wrappers,
           notification, wrapper, lastGet, lastClose, diagnostics, errors, closeOps,
           overlay >>

(* ------------------------------ the probe ------------------------------ *)

\* A probe that takes the presence of w.external for the site-mode capability:
\* the call of msIsSiteMode, its comparison and the try/catch left out.
IsSupportedProbeAnyExternal(h) ==
  IF h.N \/ h.WK \/ h.MOZ THEN TRUE ELSE h.EXT # "absent"

\* self.isSupported: !!(w.Notification || w.webkitNotifications ||
\* navigator.mozNotification || (w.external && w.external.msIsSiteMode() !==
\* undefined)) inside try/catch; an exception leaves the initial false.
IsSupportedProbe(h) ==
  IF h.N \/ h.WK \/ h.MOZ THEN TRUE
  ELSE IF h.EXT = "absent" THEN FALSE
  ELSE IF h.EXT = "throws" THEN FALSE
  ELSE h.EXT # "undef"

(* --------------------------- Permission.get ---------------------------- *)

\* The value and the branch of self.Permission.get().  value "THROW" is an
\* exception raised by w.external.msIsSiteMode(); "undefined" is the
\* JavaScript undefined.
PermissionGet(h, p, sup) ==
  IF ~sup THEN [value |-> "undefined", branch |-> "unsupported"]
  ELSE IF h.N /\ h.Nlevel THEN [value |-> p, branch |-> "Modern"]
  ELSE IF h.WK /\ h.WKcheck
    THEN [value |-> PermissionsAt(checkPermission(p)), branch |-> "Legacy"]
  ELSE IF h.N /\ h.Nperm THEN [value |-> p, branch |-> "Modern"]
  ELSE IF h.MOZ THEN [value |-> "undefined", branch |-> "Moz"]
  ELSE IF h.EXT = "absent" THEN [value |-> "undefined", branch |-> "none"]
  ELSE IF h.EXT = "throws" THEN [value |-> "THROW", branch |-> "SiteMode"]
  ELSE IF h.EXT = "undef" THEN [value |-> "undefined", branch |-> "none"]
  ELSE [value |-> IF h.EXT = "true" THEN Permission.GRANTED ELSE Permission.DEFAULT,
        branch |-> "SiteMode"]

(* ------------------------- Permission.request -------------------------- *)

\* The native mechanism self.Permission.request(callback) hands the callback
\* to: webkitNotifications.requestPermission, Notification.requestPermission,
\* or none of them (the callback is dropped).
RequestVia(h, sup) ==
  IF ~sup THEN "unsupported"
  ELSE IF h.WK /\ h.WKcheck THEN "Legacy"
  ELSE IF h.N /\ h.Nreq THEN "Modern"
  ELSE "none"

\* The record of one Permission.request call: call is the number of the
\* create call that issued it, 0 for a request of the page itself.
NewRequest(call, h, sup) ==
  LET via == RequestVia(h, sup) IN
  [ call |-> call, via |-> via,
    state |-> IF via \in {"Legacy", "Modern"} THEN "pending" ELSE "dropped",
    invoked |-> 0, result |-> "none" ]

(* --------------------------- create_callback --------------------------- *)

\* The branch of create_callback's if-chain the host takes.  The fourth test,
\* win.external && win.external.msIsSiteMode(), reads the undeclared name win.
DisplayBranch(h) ==
  IF h.N THEN "Modern"
  ELSE IF h.WK THEN "Legacy"
  ELSE IF h.MOZ THEN "Moz"
  ELSE "SiteMode"

\* (isString(icon) || isUndefined(icon)) ? icon : icon.x32
ModernIcon(icon) == IF icon \in {"string", "undefined"} THEN icon ELSE "x32"

\* Whether the branch raises before `notification` is assigned: the Legacy
\* and SiteMode branches read win, which is declared nowhere.
DisplayThrows(branch) == branch \in {"Legacy", "SiteMode"}

\* What the native object of a variant offers.
NativeHasClose(variant) == variant = "Modern"

NativeHasCancel(variant) == variant = "Legacy"

NativeHasEvents(variant) == variant \in {"Modern", "Legacy"}

\* The autoclose listener is registered when notification.addEventListener
\* and options.timeout are both truthy.
RegistersAutoclose(variant, timeout) == NativeHasEvents(variant) /\ timeout # 0

\* The notification callbacks are registered with no test of
\* notification.addEventListener: isFunction(options.onShow) and a native
\* object without that method raise a TypeError.
BindThrows(variant, callbacks) == callbacks /\ ~NativeHasEvents(variant)

\* The native object the branch constructs for create call number c, whose
\* permission request resolved with res.
NewNative(branch, inp, c, res) ==
  [ variant |-> branch, call |-> c, title |-> inp.title, body |-> inp.body,
    tag |-> IF branch = "Modern" THEN inp.tag ELSE "undefined",
    icon |-> IF branch = "Modern" THEN ModernIcon(inp.icon) ELSE inp.icon,
    perm |-> res,
    showCalls |-> IF branch \in {"Legacy", "Moz"} THEN 1 ELSE 0,
    listener |-> RegistersAutoclose(branch, inp.timeout),
    registered |-> inp.callbacks /\ NativeHasEvents(branch),
    bindThrew |-> BindThrows(branch, inp.callbacks),
    delay |-> inp.timeout,
    shown |-> FALSE, timer |-> "none", closeCalls |-> 0 ]

\* (isString(icon) || isUndefined(icon)) ? icon : icon.x16
OverlayIcon(icon) == IF icon \in {"string", "undefined"} THEN icon ELSE "x16"

\* The overlay slot after msSiteModeClearIconOverlay(),
\* msSiteModeSetIconOverlay(icon, title) and msSiteModeActivate().
OverlaySet(inp) ==
  [set |-> TRUE, icon |-> OverlayIcon(inp.icon), title |-> inp.title, active |-> TRUE]

\* create_callback(title, options) with the arguments inp of create call
\* number c.  A branch that raises leaves before `notification` and `wrapper`
\* are assigned; the callback registration raises after both are.
CreateCallbackOn(inp, c, res) ==
  LET branch == DisplayBranch(host) IN
  IF DisplayThrows(branch)
    THEN /\ errors' = errors + 1
         /\ UNCHANGED << natives, wrappers, notification, wrapper, overlay >>
    ELSE /\ natives' = Append(natives, NewNative(branch, inp, c, res))
         /\ notification' = Len(natives) + 1
         /\ overlay' = IF branch = "SiteMode" THEN OverlaySet(inp) ELSE overlay
         /\ wrappers' = Append(wrappers, [closes |-> 0])
         /\ wrapper' = Len(wrappers) + 1
         /\ errors' = IF BindThrows(branch, inp.callbacks) THEN errors + 1 ELSE errors

\* create_callback(title, options) for create call number c.
CreateCallback(c, res) == CreateCallbackOn(calls[c].input, c, res)

(* ---------------------------- wrapper.close ---------------------------- *)

\* The native object a close() of any handle acts on: the handle's function
\* reads the name `notification` when it runs.
CloseTarget(k) == notification

\* What wrapper.close() of handle k does to the state: notification.close(),
\* else notification.cancel(), else the overlay clear behind a read of win
\* (w.external && win.external.msIsSiteMode), which raises.  A read of a
\* member of an undefined `notification` raises too.
WrapperClose(k) ==
  LET n == CloseTarget(k)
      same == [ natives |-> natives, wrappers |-> wrappers, lastClose |-> lastClose,
                errors |-> errors ]
  IN
  IF n = 0 THEN [same EXCEPT !.errors = @ + 1]
  ELSE IF NativeHasClose(natives[n].variant) \/ NativeHasCancel(natives[n].variant)
    THEN [ natives |-> [natives EXCEPT ![n].closeCalls = @ + 1],
           wrappers |-> [wrappers EXCEPT ![k].closes = @ + 1],
           lastClose |-> [handle |-> k, target |-> n],
           errors |-> errors ]
  ELSE IF host.EXT # "absent" THEN [same EXCEPT !.errors = @ + 1]
  ELSE same

(* ------------------------------- create -------------------------------- *)

\* A create that never refuses: the support test left out.
CreateRefusesNever(sup) == FALSE

\* create's first test: if (!self.isSupported) { console.error(...); return; }
CreateRefuses(sup) == ~sup

\* A create that asks only while the permission is still default.
CreateRequestsOnDefault(value) == value = Permission.DEFAULT

\* create's second test: self.Permission.get() !== self.Permission.GRANTED
CreateRequests(value) == value # Permission.GRANTED

\* self.create(title, options), the whole call.  A create that finds the
\* permission granted falls off the end of the function: it has no else branch.
Create(inp) ==
  /\ Len(calls) < MaxCreates
  /\ LET c == Len(calls) + 1
         g == PermissionGet(host, hostPerm, isSupported)
     IN
     IF CreateRefuses(isSupported)
       THEN /\ diagnostics' = diagnostics + 1
            /\ calls' = Append(calls, [input |-> inp, get |-> "notcalled",
                                       getBranch |-> "notcalled", outcome |-> "refused"])
            /\ UNCHANGED << requests, errors >>
     ELSE IF g.value = "THROW"
       THEN /\ errors' = errors + 1
            /\ calls' = Append(calls, [input |-> inp, get |-> g.value,
                                       getBranch |-> g.branch, outcome |-> "threw"])
            /\ UNCHANGED << requests, diagnostics >>
     ELSE IF CreateRequests(g.value)
       THEN /\ requests' = Append(requests, NewRequest(c, host, isSupported))
            /\ calls' = Append(calls, [input |-> inp, get |-> g.value,
                                       getBranch |-> g.branch, outcome |-> "requested"])
            /\ UNCHANGED << diagnostics, errors >>
     ELSE /\ calls' = Append(calls, [input |-> inp, get |-> g.value,
                                     getBranch |-> g.branch, outcome |-> "returned"])
          /\ UNCHANGED << requests, diagnostics, errors >>
  /\ UNCHANGED << host, hostPerm, isSupported, userRequests, natives, wrappers,
                  notification, wrapper, lastGet, lastClose, closeOps, overlay >>

(* ------------------------ the page's other calls ------------------------ *)

\* The page calls Permission.request(callback) with a callback of its own.
RequestPermission ==
  /\ Len(userRequests) < MaxUserRequests
  /\ userRequests' = Append(userRequests, NewRequest(0, host, isSupported))
  /\ UNCHANGED << host, hostPerm, isSupported, calls, requests, natives, wrappers, notification,
                  wrapper, lastGet, lastClose, diagnostics, errors, closeOps, overlay >>

\* The page calls Permission.get().
GetPermission ==
  /\ lastGet' = PermissionGet(host, hostPerm, isSupported)
  /\ lastGet' # lastGet
  /\ UNCHANGED << host, hostPerm, isSupported, calls, requests, userRequests, natives,
                  wrappers, notification, wrapper, lastClose, diagnostics, errors,
                  closeOps, overlay >>

\* The page calls close() on handle k.
HandleClose(k) ==
  /\ closeOps < MaxCloses
  /\ closeOps' = closeOps + 1
  /\ LET done == WrapperClose(k) IN
     /\ natives' = done.natives
     /\ wrappers' = done.wrappers
     /\ lastClose' = done.lastClose
     /\ errors' = done.errors
  /\ UNCHANGED << host, hostPerm, isSupported, calls, requests, userRequests,
                  notification, wrapper, lastGet, diagnostics, overlay >>

(* ------------------------------- the host ------------------------------- *)

\* The results the host can resolve a permission request with: the user is
\* asked only while the permission is still default.
Resolutions(p) == IF p = "default" THEN PermissionStates ELSE {p}

\* A callback that displays the arguments of the latest create call instead
\* of those of its own call.
RequestCallbackLatest(r, res) == CreateCallback(Len(calls), res)

\* The callback create hands to Permission.request:
\* function () { create_callback(title, options); }
RequestCallback(r, res) == CreateCallback(requests[r].call, res)

\* The host completes pending request r of create with res and invokes its
\* callback.
Resolve(r, res) ==
  /\ requests[r].state = "pending"
  /\ res \in Resolutions(hostPerm)
  /\ hostPerm' = res
  /\ requests' = [requests EXCEPT ![r].state = "done", ![r].invoked = @ + 1,
                                  ![r].result = res]
  /\ RequestCallback(r, res)
  /\ UNCHANGED << host, isSupported, calls, userRequests, lastGet, lastClose,
                  diagnostics, closeOps >>

\* The host completes pending request u of the page with res and invokes the
\* page's callback.
ResolveUser(u, res) ==
  /\ userRequests[u].state = "pending"
  /\ res \in Resolutions(hostPerm)
  /\ hostPerm' = res
  /\ userRequests' = [userRequests EXCEPT ![u].state = "done", ![u].invoked = @ + 1,
                                          ![u].result = res]
  /\ UNCHANGED << host, isSupported, calls, requests, natives, wrappers, notification,
                  wrapper, lastGet, lastClose, diagnostics, errors, closeOps, overlay >>

\* create_callback(title, options) run on its own, as the display path of a
\* supported host.
Display(inp) ==
  /\ isSupported
  /\ Len(calls) < MaxCreates
  /\ calls' = Append(calls, [input |-> inp, get |-> "notcalled",
                             getBranch |-> "notcalled", outcome |-> "display"])
  /\ CreateCallbackOn(inp, Len(calls) + 1, hostPerm)
  /\ UNCHANGED << host, hostPerm, isSupported, requests, userRequests, lastGet,
                  lastClose, diagnostics, closeOps >>

\* The host displays native notification i and fires its show event; the
\* autoclose listener, when registered, calls setTimeout.
Show(i) ==
  /\ NativeHasEvents(natives[i].variant)
  /\ ~natives[i].shown
  /\ natives[i].closeCalls = 0
  /\ hostPerm = "granted"
  /\ natives' = [natives EXCEPT ![i].shown = TRUE,
                                ![i].timer = IF natives[i].listener THEN "pending" ELSE "none"]
  /\ UNCHANGED << host, hostPerm, isSupported, calls, requests, userRequests, wrappers,
                  notification, wrapper, lastGet, lastClose, diagnostics, errors,
                  closeOps, overlay >>

\* The handle the timer's function closes: it reads the name `wrapper` when
\* it runs.
TimerHandle(i) == wrapper

\* The timer armed by the show event of native i fires:
\* function () { wrapper.close(); }
TimerFire(i) ==
  /\ natives[i].timer = "pending"
  /\ LET done == WrapperClose(TimerHandle(i)) IN
     /\ natives' = [done.natives EXCEPT ![i].timer = "fired"]
     /\ wrappers' = done.wrappers
     /\ lastClose' = done.lastClose
     /\ errors' = done.errors
  /\ UNCHANGED << host, hostPerm, isSupported, calls, requests, userRequests,
                  notification, wrapper, lastGet, diagnostics, closeOps, overlay >>

(* -------------------------- the specifications ------------------------- *)

\* The hosts the library was written for, as the program sees them.
Chrome ==
  [ N |-> TRUE, Nlevel |-> FALSE, Nperm |-> TRUE, Nreq |-> TRUE,
    WK |-> FALSE, WKcheck |-> FALSE, MOZ |-> FALSE, EXT |-> "throws" ]

Safari6 ==
  [ N |-> TRUE, Nlevel |-> TRUE, Nperm |-> FALSE, Nreq |-> TRUE,
    WK |-> FALSE, WKcheck |-> FALSE, MOZ |-> FALSE, EXT |-> "absent" ]

ChromeWithLegacy ==
  [ N |-> TRUE, Nlevel |-> FALSE, Nperm |-> TRUE, Nreq |-> TRUE,
    WK |-> TRUE, WKcheck |-> TRUE, MOZ |-> FALSE, EXT |-> "throws" ]

LegacyWebkit ==
  [ N |-> FALSE, Nlevel |-> FALSE, Nperm |-> FALSE, Nreq |-> FALSE,
    WK |-> TRUE, WKcheck |-> TRUE, MOZ |-> FALSE, EXT |-> "throws" ]

FirefoxMobile ==
  [ N |-> FALSE, Nlevel |-> FALSE, Nperm |-> FALSE, Nreq |-> FALSE,
    WK |-> FALSE, WKcheck |-> FALSE, MOZ |-> TRUE, EXT |-> "throws" ]

PinnedSite ==
  [ N |-> FALSE, Nlevel |-> FALSE, Nperm |-> FALSE, Nreq |-> FALSE,
    WK |-> FALSE, WKcheck |-> FALSE, MOZ |-> FALSE, EXT |-> "true" ]

UnpinnedSite ==
  [ N |-> FALSE, Nlevel |-> FALSE, Nperm |-> FALSE, Nreq |-> FALSE,
    WK |-> FALSE, WKcheck |-> FALSE, MOZ |-> FALSE, EXT |-> "false" ]

NoCapability ==
  [ N |-> FALSE, Nlevel |-> FALSE, Nperm |-> FALSE, Nreq |-> FALSE,
    WK |-> FALSE, WKcheck |-> FALSE, MOZ |-> FALSE, EXT |-> "throws" ]

HostProfiles ==
  { Chrome, Safari6, ChromeWithLegacy, LegacyWebkit, FirefoxMobile, PinnedSite,
    UnpinnedSite, NoCapability }

\* The state after construction of the Push object in host h.
InitIn(hs) ==
  /\ host \in hs
  /\ hostPerm \in PermissionStates
  /\ isSupported = IsSupportedProbe(host)
  /\ calls = << >>
  /\ requests = << >>
  /\ userRequests = << >>
  /\ natives = << >>
  /\ wrappers = << >>
  /\ notification = 0
  /\ wrapper = 0
  /\ lastGet = [value |-> "notcalled", branch |-> "notcalled"]
  /\ lastClose = [handle |-> 0, target |-> 0]
  /\ diagnostics = 0
  /\ errors = 0
  /\ closeOps = 0
  /\ overlay = [set |-> FALSE, icon |-> "none", title |-> "none", active |-> FALSE]

\* The life of notifications in the profiled hosts.
Init == InitIn(HostProfiles)

Next ==
  \/ \E inp \in Inputs : Create(inp)
  \/ \E r \in 1..Len(requests) : \E res \in PermissionStates : Resolve(r, res)
  \/ \E i \in 1..Len(natives) : Show(i)
  \/ \E i \in 1..Len(natives) : TimerFire(i)
  \/ \E k \in 1..Len(wrappers) : HandleClose(k)

Spec == Init /\ [][Next]_vars

\* The permission interface and create in every combination of capabilities.
InitHosts == InitIn(Hosts)

NextHosts ==
  \/ \E inp \in Inputs : Create(inp)
  \/ RequestPermission
  \/ GetPermission
  \/ \E r \in 1..Len(requests) : \E res \in PermissionStates : Resolve(r, res)
  \/ \E u \in 1..Len(userRequests) : \E res \in PermissionStates : ResolveUser(u, res)

SpecHosts == InitHosts /\ [][NextHosts]_vars

\* The display path on its own in the profiled hosts.
InitDisplay == InitIn(HostProfiles)

NextDisplay ==
  \/ \E inp \in DisplayInputs : Display(inp)
  \/ \E i \in 1..Len(natives) : Show(i)
  \/ \E i \in 1..Len(natives) : TimerFire(i)
  \/ \E k \in 1..Len(wrappers) : HandleClose(k)

SpecDisplay == InitDisplay /\ [][NextDisplay]_vars

(* ------------------------------ the claims ------------------------------ *)

\* The native objects constructed for create call number c.
NativesOf(c) == { i \in 1..Len(natives) : natives[i].call = c }

\* The permission requests create call number c has issued.
RequestsOf(c) == { r \in 1..Len(requests) : requests[r].call = c }

\* C1: a native notification is constructed only for a permission request
\* that resolved to granted; a request resolved with denied or default
\* constructs none.
C1_DisplayOnlyWhenGranted ==
  \A i \in 1..Len(natives) : natives[i].perm = "granted"

\* C2: a create call in a supported host whose Permission.get() returned
\* granted has constructed exactly one native notification, with its body and
\* tag, when it returns, and has issued no permission request.
C2_GrantedDisplaysInline ==
  \A c \in 1..Len(calls) :
    (isSupported /\ calls[c].get = "granted") =>
      /\ Cardinality(NativesOf(c)) = 1
      /\ \A i \in NativesOf(c) : /\ natives[i].body = calls[c].input.body
                                 /\ natives[i].tag = calls[c].input.tag
      /\ RequestsOf(c) = {}

\* C3: the close() of the handle built for the i-th displayed notification
\* acts on the i-th native object and on no other, and no two handles refer
\* to the same native object.
C3_HandleOwnsItsNative ==
  /\ lastClose.handle = lastClose.target
  /\ \A k \in 1..Len(wrappers) : CloseTarget(k) = k

\* The variant the precedence of the specification selects in host h: the
\* first present of ModernNotification, LegacyWebkitNotification,
\* MozillaMobileNotification, SiteModeOverlay.
FirstVariant(h) ==
  IF h.N THEN "Modern"
  ELSE IF h.WK THEN "Legacy"
  ELSE IF h.MOZ THEN "Moz"
  ELSE IF h.EXT \in {"true", "false"} THEN "SiteMode"
  ELSE "None"

AllRequests ==
  { requests[r] : r \in 1..Len(requests) } \cup
  { userRequests[u] : u \in 1..Len(userRequests) }

\* C4: the callback of a Permission.request call is invoked at most once, and
\* on the variants that take the capability's presence for a grant
\* (MozillaMobileNotification, SiteModeOverlay) it has been invoked exactly
\* once when request returns.
C4_CallbackInvokedOnce ==
  \A q \in AllRequests :
    /\ q.invoked <= 1
    /\ (isSupported /\ FirstVariant(host) \in {"Moz", "SiteMode"}) => q.invoked = 1

\* C5: however often close() is called on a handle, the handle invokes the
\* native close primitive at most once, and no close raises an error.
C5_CloseIdempotent ==
  \A k \in 1..Len(wrappers) : wrappers[k].closes <= 1

\* C6: the expiry of the timer of a notification that was closed before the
\* timer fired invokes no native close.
C6_TimerCancelledByClose ==
  [][ \A i \in 1..Len(natives) :
        ( /\ natives[i].timer = "pending"
          /\ natives'[i].timer = "fired"
          /\ natives[i].closeCalls > 0 )
        => \A j \in 1..Len(natives) : natives'[j].closeCalls = natives[j].closeCalls ]_vars

\* C7: the show event of a notification with a positive timeout and event
\* support arms its timer; the expiry of the timer of a notification not yet
\* closed closes that notification; a native object without events never has
\* a timer.
C7_TimerClosesItsNotification ==
  [][ \A i \in 1..Len(natives) :
        /\ ( /\ ~natives[i].shown /\ natives'[i].shown
             /\ natives[i].delay > 0 /\ NativeHasEvents(natives[i].variant) )
           => natives'[i].timer = "pending"
        /\ ( /\ natives[i].timer = "pending"
             /\ natives'[i].timer = "fired"
             /\ natives[i].closeCalls = 0 )
           => natives'[i].closeCalls >= 1
        /\ ~NativeHasEvents(natives[i].variant) => natives'[i].timer = "none" ]_vars

\* C8: Permission.get() returns undefined in an unsupported host and one of
\* granted, default, denied in every supported host.
C8_GetReturnsAState ==
  /\ lastGet.value # "notcalled" =>
       IF isSupported THEN lastGet.value \in PermissionStates
       ELSE lastGet.value = "undefined"
  /\ \A c \in 1..Len(calls) :
       calls[c].get # "notcalled" => calls[c].get \in PermissionStates

\* C9: Permission.get, Permission.request and the display path dispatch to
\* the same variant, the first present in the order ModernNotification,
\* LegacyWebkitNotification, MozillaMobileNotification, SiteModeOverlay:
\* whenever one of them has taken the branch of a variant, it is that one.
C9_SamePrecedence ==
  /\ \A c \in 1..Len(calls) :
       calls[c].getBranch \notin {"notcalled", "none"}
         => calls[c].getBranch = FirstVariant(host)
  /\ \A r \in 1..Len(requests) :
       requests[r].via # "none" => requests[r].via = FirstVariant(host)
  /\ \A i \in 1..Len(natives) : natives[i].variant = FirstVariant(host)

\* C10: in a host with no known capability every create call emits one
\* diagnostic and does nothing else (no permission read, no request, no native
\* notification, no exception); Permission.get returns undefined without
\* reading a host signal, and Permission.request hands its callback to no
\* native mechanism and never invokes it.
C10_UnsupportedIsInert ==
  ~isSupported =>
    /\ diagnostics = Len(calls)
    /\ \A c \in 1..Len(calls) :
         /\ calls[c].outcome = "refused"
         /\ calls[c].get = "notcalled"
         /\ calls[c].getBranch = "notcalled"
    /\ requests = << >>
    /\ natives = << >>
    /\ wrappers = << >>
    /\ errors = 0
    /\ lastGet.value \in {"notcalled", "undefined"}
    /\ lastGet.branch \in {"notcalled", "unsupported"}
    /\ \A u \in 1..Len(userRequests) :
         /\ userRequests[u].via = "unsupported"
         /\ userRequests[u].state = "dropped"
         /\ userRequests[u].invoked = 0

\* An unsupported host in which create, Permission.get and
\* Permission.request have all been called.
C10_Witness ==
  /\ ~isSupported
  /\ Len(calls) >= 1
  /\ Len(userRequests) >= 1
  /\ lastGet.value = "undefined"

\* C11: isSupported is true exactly when one of the four detectors matches
\* (Notification, webkitNotifications, mozNotification, or a site-mode check
\* that returns a value); a site-mode check that raises leaves it false.
C11_SupportedIffDetected ==
  /\ isSupported \in BOOLEAN
  /\ isSupported <=> (FirstVariant(host) # "None")

\* A host whose only capability candidate is an external object whose
\* site-mode check raises, found unsupported and used through create.
C11_Witness ==
  /\ host.EXT = "throws"
  /\ ~isSupported
  /\ Len(calls) >= 1
  /\ calls[1].outcome = "refused"

\* C12: the display of a native object without event registration raises no
\* error when callable onShow, onError, onClick and onClose are supplied; the
\* callbacks are not registered.
C12_BindingBestEffort ==
  \A i \in 1..Len(natives) :
    (~NativeHasEvents(natives[i].variant) /\ calls[natives[i].call].input.callbacks)
      => (~natives[i].bindThrew /\ ~natives[i].registered)

\* The requests of create call number c that reached a permission-request
\* mechanism of the host.
HostRequestsOf(c) == { r \in RequestsOf(c) : requests[r].via \in {"Legacy", "Modern"} }

\* C13: a create call in a supported host whose Permission.get() did not
\* return granted has invoked exactly one permission request on the host, and
\* no create call ever issues a second request.
C13_ExactlyOneRequest ==
  \A c \in 1..Len(calls) :
    /\ Cardinality(RequestsOf(c)) <= 1
    /\ (isSupported /\ calls[c].get \in {"default", "denied", "undefined"})
         => Cardinality(HostRequestsOf(c)) = 1

\* Whether the host has a permission-request mechanism the program uses.
HasRequestMechanism(h) == (h.WK /\ h.WKcheck) \/ (h.N /\ h.Nreq)

\* C13 as amended: a create call in a supported host whose Permission.get()
\* returned a value other than granted has called Permission.request exactly
\* once, any other create call never; the call has reached the host exactly
\* once where the host has a request mechanism and not at all elsewhere; a
\* request resolved with denied is not followed by another one.
C13_OneRequestCall ==
  \A c \in 1..Len(calls) :
    /\ Cardinality(RequestsOf(c)) <= 1
    /\ (isSupported /\ calls[c].get \in {"default", "denied", "undefined"})
         => /\ Cardinality(RequestsOf(c)) = 1
            /\ Cardinality(HostRequestsOf(c)) = IF HasRequestMechanism(host) THEN 1 ELSE 0
    /\ calls[c].get \in {"granted", "notcalled", "THROW"} => RequestsOf(c) = {}

\* Two create calls made while the permission was not granted, the request
\* of the first resolved with denied.
C13_Witness ==
  /\ Len(calls) >= 2
  /\ \A c \in 1..2 : calls[c].get \in {"default", "denied"}
  /\ \E r \in RequestsOf(1) : requests[r].result = "denied"
  /\ Cardinality(HostRequestsOf(2)) = 1

\* The create calls whose display path has run: the direct runs and the
\* calls whose permission request the host has completed.
Displayed(c) ==
  \/ calls[c].outcome = "display"
  \/ \E r \in RequestsOf(c) : requests[r].state = "done"

\* The icon the claim expects for a sized record, a string or no icon.
ExpectedIcon(icon, size) == IF icon = "sized" THEN size ELSE icon

\* C14: a ModernNotification display passes the x32 reference of a sized
\* icon record and a SiteModeOverlay display the x16 reference; a string or
\* an absent icon is passed unchanged.
C14_IconResolution ==
  /\ \A i \in 1..Len(natives) :
       natives[i].variant = "Modern"
         => natives[i].icon = ExpectedIcon(calls[natives[i].call].input.icon, "x32")
  /\ (Len(calls) > 0 /\ Displayed(Len(calls)) /\ FirstVariant(host) = "SiteMode")
       => overlay.icon = ExpectedIcon(calls[Len(calls)].input.icon, "x16")

\* C15: a SiteModeOverlay display clears the overlay, sets icon and title and
\* activates site mode, without error, so that the slot holds the overlay of
\* the most recent display until a handle's close() clears it.
C15_OverlayHoldsLatest ==
  (Len(calls) > 0 /\ Displayed(Len(calls)) /\ FirstVariant(host) = "SiteMode")
    => /\ errors = 0
       /\ closeOps = 0 => /\ overlay.set
                          /\ overlay.active
                          /\ overlay.title = calls[Len(calls)].input.title

\* The results of the Permission.get() calls made so far, by the page and by
\* create.
GetResults ==
  { lastGet } \cup
  { [value |-> calls[c].get, branch |-> calls[c].getBranch] : c \in 1..Len(calls) }

\* C16: Permission.get() never raises, and in a supported host whose
\* permission signal is absent or malformed (no branch of a variant applies,
\* or the site-mode check raises) it returns default.
C16_GetNeverThrows ==
  \A g \in GetResults :
    /\ g.value # "THROW"
    /\ (isSupported /\ g.branch = "none") => g.value = "default"

\* C17: on the LegacyWebkitNotification and MozillaMobileNotification variants
\* a run of the display path constructs one native notification and calls its
\* show action exactly once.
C17_ExplicitShow ==
  \A c \in 1..Len(calls) :
    (Displayed(c) /\ FirstVariant(host) \in {"Legacy", "Moz"})
      => /\ Cardinality(NativesOf(c)) = 1
         /\ \A i \in NativesOf(c) : natives[i].showCalls = 1

\* C18: the expiry of the timer of one notification invokes the native close
\* of no other notification.
C18_TimersAreIndependent ==
  [][ \A i \in 1..Len(natives) :
        (natives[i].timer = "pending" /\ natives'[i].timer = "fired")
          => \A j \in 1..Len(natives) :
               j # i => natives'[j].closeCalls = natives[j].closeCalls ]_vars

\* C19: in a supported host every run of the display path produces a native
\* notification object for its call, and the handle built with it.
C19_DisplaySelectsAVariant ==
  \A c \in 1..Len(calls) :
    (isSupported /\ Displayed(c))
      => \E i \in NativesOf(c) : i <= Len(wrappers)

\* C20: every native notification carries the title and options of the
\* create call whose permission request built it, whatever the order of the
\* resolutions, and a create call has at most one native notification.
C20_OwnArguments ==
  /\ \A i \in 1..Len(natives) :
       LET c == natives[i].call IN
       /\ natives[i].title = calls[c].input.title
       /\ natives[i].body = calls[c].input.body
       /\ natives[i].tag = calls[c].input.tag
       /\ natives[i].delay = calls[c].input.timeout
  /\ \A c \in 1..Len(calls) : Cardinality(NativesOf(c)) <= 1
  /\ \A r \in 1..Len(requests) :
       (requests[r].state = "done" /\ host.N) => NativesOf(requests[r].call) # {}

\* Two create calls with different arguments, both pending at once, resolved
\* in the reverse order: the first native object belongs to the second call.
C20_Witness ==
  /\ Len(natives) = 2
  /\ natives[1].call = 2
  /\ natives[2].call = 1
  /\ calls[1].input # calls[2].input

=============================================================================
